---------------------------- MODULE Spec2Model ----------------------------
(***************************************************************************)
(* A model of example-usage/use_devdigger_db.py: the DevDiggerDB reader    *)
(* over the DevDigger SQLite database, the example_basic_usage script and  *)
(* the program's entry point.                                              *)
(*                                                                         *)
(* The database is written by the external crawler; the reader receives    *)
(* it as input.  Tables are sequences of rows in rowid order (the order    *)
(* of a table scan).  Text is a sequence of one-character strings, a blob  *)
(* a sequence of bytes.  Columns that no operation below inspects (type,   *)
(* crawl_status, description, code, and the source's url and title, which  *)
(* a joined row carries along as the field src) are left out of the rows.  *)
(***************************************************************************)
EXTENDS Integers, Sequences, FiniteSets, TLC

VARIABLES
    sources,        \* table sources: rows [id, created_at]
    documents,      \* table documents: rows [id, source_id, content, chunk_index, embedding]
    code_examples,  \* table code_examples: rows [id, source_id, language]
    collections,    \* table collections: rows [id]
    db_exists,      \* DB_PATH.exists()
    conn,           \* self.conn: "none" (no reader), "open", "closed"
    cursor,         \* self.cursor: "none", "fresh" (nothing executed), "used"
    files,          \* the export files: path -> [exists, tokens]
    ret,            \* what the last call returned or raised
    pc,             \* position of the script ("api": methods called directly)
    stdout,         \* what the script printed, one tag per print
    exit_code       \* the process exit code, -1 while running

tables == <<sources, documents, code_examples, collections>>
vars == <<sources, documents, code_examples, collections, db_exists, conn,
          cursor, files, ret, pc, stdout, exit_code>>

---------------------------------------------------------------------------
(* Bounds of the model. *)

\* rows in a table of the call specifications
MaxRows == 2
\* length of a text value (a document's content, a query)
MaxLen == 1
\* rows in a table of the call-sequence specification
MaxSeqRows == 1
\* bytes in an embedding blob
MaxBlobLen == 8

---------------------------------------------------------------------------
(* Values. *)

\* The characters of text values: two letters differing in case only, and
\* the two LIKE wildcards.
Chars == {"a", "A", "_", "%"}

RECURSIVE StringsOfLen(_)
StringsOfLen(n) ==
    IF n = 0 THEN {<<>>}
    ELSE {<<c>> \o s : c \in Chars, s \in StringsOfLen(n - 1)}

Strings == UNION {StringsOfLen(n) : n \in 0..MaxLen}

\* SQL NULL and a blob, as the value of documents.embedding.
Null == [null |-> TRUE, bytes |-> <<>>]
Blob(b) == [null |-> FALSE, bytes |-> b]

\* One blob per byte length: repetitions of 1.0f, little-endian (00 00 80 3f).
FloatOneBytes == <<0, 0, 128, 63>>
BlobOfLen(n) == Blob([i \in 1..n |-> FloatOneBytes[((i - 1) % 4) + 1]])

\* Python arguments: None, an int, a str.
PyNone == [kind |-> "none", n |-> 0, s |-> <<>>]
PyInt(i) == [kind |-> "int", n |-> i, s |-> <<>>]
PyStr(x) == [kind |-> "str", n |-> 0, s |-> x]

\* Python truth value, as tested by `if source_id:`, `if language:`.
truthy(v) ==
    CASE v.kind = "none" -> FALSE
      [] v.kind = "int" -> v.n # 0
      [] v.kind = "str" -> v.s # <<>>

\* Python truth value of a bytes object, as tested by `if doc['embedding']:`.
truthy_bytes(b) == Len(b) # 0

NoRet == [op |-> "none"]
NoFile == [exists |-> FALSE, tokens |-> <<>>]
DefaultPath == "devdigger_export.json"
Paths == {DefaultPath, "out.json"}

---------------------------------------------------------------------------
(* SQLite. *)

\* ASCII case folding of the LIKE operator.
Fold(c) == IF c = "A" THEN "a" ELSE c

\* X LIKE P, SQLite's default: % matches any run of characters, _ exactly
\* one, any other character itself without regard to ASCII case.
RECURSIVE Like(_, _)
Like(p, s) ==
    IF p = <<>> THEN s = <<>>
    ELSE IF Head(p) = "%"
         THEN Like(Tail(p), s) \/ (s # <<>> /\ Like(p, Tail(s)))
         ELSE /\ s # <<>>
              /\ (Head(p) = "_" \/ Fold(Head(p)) = Fold(Head(s)))
              /\ Like(Tail(p), Tail(s))

\* A faulty LIMIT: one row too many.
Limit_OffByOne(rows, n) ==
    IF n < 0 \/ n + 1 >= Len(rows) THEN rows ELSE SubSeq(rows, 1, n + 1)

\* LIMIT n of a result: a negative n is no limit.
Limit(rows, n) ==
    IF n < 0 \/ n >= Len(rows) THEN rows ELSE SubSeq(rows, 1, n)

\* d JOIN sources s ON d.source_id = s.id: one row for every pair.
RECURSIVE JoinSources(_)
JoinSources(rows) ==
    IF rows = <<>> THEN <<>>
    ELSE LET d == Head(rows)
             IsSrc(s) == s.id = d.source_id
             m == SelectSeq(sources, IsSrc)
         IN [i \in 1..Len(m) |-> [row |-> d, src |-> m[i].id]]
            \o JoinSources(Tail(rows))

\* ORDER BY an integer key, ascending: insertion sort over <<key, row>>
\* pairs, rows with equal keys kept in scan order.
RECURSIVE Insert(_, _)
Insert(p, sorted) ==
    IF sorted = <<>> THEN <<p>>
    ELSE IF Head(sorted)[1] <= p[1]
         THEN <<Head(sorted)>> \o Insert(p, Tail(sorted))
         ELSE <<p>> \o sorted

RECURSIVE SortPairs(_)
SortPairs(pairs) ==
    IF pairs = <<>> THEN <<>>
    ELSE Insert(pairs[Len(pairs)], SortPairs(SubSeq(pairs, 1, Len(pairs) - 1)))

OrderBy(rows, key) ==
    LET sorted == SortPairs([i \in 1..Len(rows) |-> <<key[i], rows[i]>>])
    IN [i \in 1..Len(rows) |-> sorted[i][2]]

\* SELECT COUNT( * ) FROM a table.
RECURSIVE Count(_)
Count(rows) == IF rows = <<>> THEN 0 ELSE 1 + Count(Tail(rows))

\* np.frombuffer(b, dtype=np.float32): the bit patterns of the floats,
\* little-endian; a ValueError unless the size is a multiple of 4.
frombuffer_raises(b) == Len(b) % 4 # 0
frombuffer(b) ==
    [i \in 1..(Len(b) \div 4) |->
        b[4*i - 3] + 256 * b[4*i - 2] + 65536 * b[4*i - 1] + 16777216 * b[4*i]]

---------------------------------------------------------------------------
(* The reader's queries, as functions of the database. *)

TableNames == {"sources", "documents", "code_examples", "collections"}

Table(name) ==
    CASE name = "sources" -> sources
      [] name = "documents" -> documents
      [] name = "code_examples" -> code_examples
      [] name = "collections" -> collections

\* column = ? for an integer column and a bound Python argument.
SqlEqInt(col, v) == v.kind = "int" /\ v.n = col

\* column = ? for a text column and a bound Python argument.
SqlEqText(col, v) == v.kind = "str" /\ v.s = col

\* A faulty get_stats: the last table of the list is not counted.
get_stats_ShortList ==
    [name \in TableNames \ {"collections"} |-> Count(Table(name))]

get_stats == [name \in TableNames |-> Count(Table(name))]

list_sources ==
    OrderBy(sources, [i \in 1..Len(sources) |-> 0 - sources[i].created_at])

search(query, limit) ==
    LET pattern == <<"%">> \o query \o <<"%">>
        Hit(j) == Like(pattern, j.row.content)
        hits == SelectSeq(JoinSources(documents), Hit)
    IN Limit([i \in 1..Len(hits) |->
                 [id |-> hits[i].row.id, content |-> hits[i].row.content,
                  source_id |-> hits[i].row.source_id, src |-> hits[i].src]],
             limit)

get_documents(source_id) ==
    IF truthy(source_id)
    THEN LET Of(d) == SqlEqInt(d.source_id, source_id)
             rows == SelectSeq(documents, Of)
         IN OrderBy(rows, [i \in 1..Len(rows) |-> rows[i].chunk_index])
    ELSE documents

get_code_examples(language) ==
    LET joined == JoinSources(code_examples)
        In(j) == SqlEqText(j.row.language, language)
        rows == IF truthy(language) THEN SelectSeq(joined, In) ELSE joined
    IN [i \in 1..Len(rows) |->
           [id |-> rows[i].row.id, source_id |-> rows[i].row.source_id,
            language |-> rows[i].row.language, source_url |-> rows[i].src]]

\* A faulty query of get_embeddings: without its WHERE clause.
embedding_rows_NoWhere == JoinSources(documents)

\* The rows get_embeddings fetches: WHERE d.embedding IS NOT NULL.
embedding_rows ==
    LET HasEmbedding(j) == ~j.row.embedding.null
    IN SelectSeq(JoinSources(documents), HasEmbedding)

\* The loop of get_embeddings raises when np.frombuffer does.
get_embeddings_raises ==
    \E i \in 1..Len(embedding_rows) :
        LET b == embedding_rows[i].row.embedding.bytes
        IN truthy_bytes(b) /\ frombuffer_raises(b)

\* doc['embedding'] after the loop body: the decoded array, or the bytes
\* object left as fetched.
decoded(b) ==
    IF truthy_bytes(b)
    THEN [type |-> "ndarray", data |-> frombuffer(b)]
    ELSE [type |-> "bytes", data |-> b]

get_embeddings ==
    [i \in 1..Len(embedding_rows) |->
        [id |-> embedding_rows[i].row.id,
         content |-> embedding_rows[i].row.content,
         embedding |-> decoded(embedding_rows[i].row.embedding.bytes),
         src |-> embedding_rows[i].src]]

---------------------------------------------------------------------------
(* JSON, as a sequence of tokens: <<"{">>, <<"str", s>>, <<"num", n>>, ... *)

JNum(n) == <<<<"num", n>>>>
JStr(s) == <<<<"str", s>>>>
JNull == <<<<"null">>>>
JPunct(c) == <<<<c>>>>

\* str(b) of a bytes object, which json.dump's default=str writes.
str_bytes(b) == <<"b'">> \o [i \in 1..Len(b) |-> ToString(b[i])] \o <<"'">>

\* Token sequences separated by commas.
RECURSIVE CommaSep(_)
CommaSep(items) ==
    IF items = <<>> THEN <<>>
    ELSE IF Len(items) = 1 THEN items[1]
    ELSE items[1] \o JPunct(",") \o CommaSep(Tail(items))

\* A JSON object from <<key, value tokens>> pairs.
JObject(pairs) ==
    JPunct("{")
    \o CommaSep([i \in 1..Len(pairs) |->
                    JStr(pairs[i][1]) \o JPunct(":") \o pairs[i][2]])
    \o JPunct("}")

JArray(items) == JPunct("[") \o CommaSep(items) \o JPunct("]")

JSource(r) ==
    JObject(<< <<"id", JNum(r.id)>>, <<"created_at", JNum(r.created_at)>> >>)

JDocument(r) ==
    JObject(<< <<"id", JNum(r.id)>>,
               <<"source_id", JNum(r.source_id)>>,
               <<"content", JStr(r.content)>>,
               <<"chunk_index", JNum(r.chunk_index)>>,
               <<"embedding", IF r.embedding.null THEN JNull
                              ELSE JStr(str_bytes(r.embedding.bytes))>> >>)

JCodeExample(r) ==
    JObject(<< <<"id", JNum(r.id)>>,
               <<"source_id", JNum(r.source_id)>>,
               <<"language", JStr(r.language)>>,
               <<"source_url", JNum(r.source_url)>> >>)

\* json.dump(data, f, indent=2, default=str) of export_to_json's data.
json_dump(data) ==
    JObject(<<
        <<"sources",
          JArray([i \in 1..Len(data.sources) |-> JSource(data.sources[i])])>>,
        <<"documents",
          JArray([i \in 1..Len(data.documents) |-> JDocument(data.documents[i])])>>,
        <<"code_examples",
          JArray([i \in 1..Len(data.code_examples) |->
                     JCodeExample(data.code_examples[i])])>> >>)

\* Reparsing: the scanner's state is the nesting depth, the key of the
\* top-level object last read, and for every such key the number of
\* elements of the array under it.
ScanStart == [depth |-> 0, key |-> "", lengths |-> <<>>]

\* The scanner's state after one more token.
ScanToken(s, tok) ==
    CASE tok[1] \in {"{", "["} ->
           [s EXCEPT !.depth = @ + 1,
                     !.lengths = IF s.depth = 2
                                 THEN [@ EXCEPT ![s.key] = @ + 1] ELSE @]
      [] tok[1] \in {"}", "]"} -> [s EXCEPT !.depth = @ - 1]
      [] tok[1] = "str" /\ s.depth = 1 ->
           [s EXCEPT !.key = tok[2], !.lengths = @ @@ (tok[2] :> 0)]
      [] OTHER -> s

\* The scanner's state after the tokens lo..hi, read in order from state s.
\* The range is halved and the state after the first half is bound as a
\* value before the second half is read, which keeps the evaluation shallow.
RECURSIVE Scan(_, _, _, _)
Scan(toks, lo, hi, s) ==
    IF lo > hi THEN s
    ELSE IF lo = hi THEN ScanToken(s, toks[lo])
    ELSE LET mid == (lo + hi) \div 2
         IN CHOOSE after \in {Scan(toks, mid + 1, hi, half) :
                                 half \in {Scan(toks, lo, mid, s)}} : TRUE

json_load_lengths(toks) == Scan(toks, 1, Len(toks), ScanStart).lengths

---------------------------------------------------------------------------
(* The reader's methods, called on a constructed reader (pc = "api"). *)

\* Any statement on a closed connection raises sqlite3.ProgrammingError.
Raised(op) == [op |-> op, raised |-> "ProgrammingError"]

\* DevDiggerDB(): a reader over the database file present at DB_PATH.
Call_init ==
    /\ pc = "api" /\ conn = "none" /\ db_exists
    /\ conn' = "open"
    /\ cursor' = "fresh"
    /\ ret' = [op |-> "__init__", raised |-> ""]
    /\ UNCHANGED <<tables, db_exists, files, pc, stdout, exit_code>>

Call_get_stats ==
    /\ pc = "api" /\ conn # "none"
    /\ IF conn = "open"
       THEN /\ cursor' = "used"
            /\ ret' = [op |-> "get_stats", raised |-> "", val |-> get_stats]
       ELSE /\ ret' = Raised("get_stats")
            /\ UNCHANGED cursor
    /\ UNCHANGED <<tables, db_exists, conn, files, pc, stdout, exit_code>>

Call_list_sources ==
    /\ pc = "api" /\ conn # "none"
    /\ IF conn = "open"
       THEN /\ cursor' = "used"
            /\ ret' = [op |-> "list_sources", raised |-> "", val |-> list_sources]
       ELSE /\ ret' = Raised("list_sources")
            /\ UNCHANGED cursor
    /\ UNCHANGED <<tables, db_exists, conn, files, pc, stdout, exit_code>>

Call_search(query, limit) ==
    /\ pc = "api" /\ conn # "none"
    /\ IF conn = "open"
       THEN /\ cursor' = "used"
            /\ ret' = [op |-> "search", raised |-> "", query |-> query,
                       limit |-> limit, val |-> search(query, limit)]
       ELSE /\ ret' = Raised("search")
            /\ UNCHANGED cursor
    /\ UNCHANGED <<tables, db_exists, conn, files, pc, stdout, exit_code>>

Call_get_documents(source_id) ==
    /\ pc = "api" /\ conn # "none"
    /\ IF conn = "open"
       THEN /\ cursor' = "used"
            /\ ret' = [op |-> "get_documents", raised |-> "",
                       source_id |-> source_id, val |-> get_documents(source_id)]
       ELSE /\ ret' = Raised("get_documents")
            /\ UNCHANGED cursor
    /\ UNCHANGED <<tables, db_exists, conn, files, pc, stdout, exit_code>>

Call_get_code_examples(language) ==
    /\ pc = "api" /\ conn # "none"
    /\ IF conn = "open"
       THEN /\ cursor' = "used"
            /\ ret' = [op |-> "get_code_examples", raised |-> "",
                       language |-> language, val |-> get_code_examples(language)]
       ELSE /\ ret' = Raised("get_code_examples")
            /\ UNCHANGED cursor
    /\ UNCHANGED <<tables, db_exists, conn, files, pc, stdout, exit_code>>

Call_get_embeddings ==
    /\ pc = "api" /\ conn # "none"
    /\ IF conn = "open"
       THEN /\ cursor' = "used"
            /\ ret' = IF get_embeddings_raises
                      THEN [op |-> "get_embeddings", raised |-> "ValueError"]
                      ELSE [op |-> "get_embeddings", raised |-> "",
                            val |-> get_embeddings]
       ELSE /\ ret' = Raised("get_embeddings")
            /\ UNCHANGED cursor
    /\ UNCHANGED <<tables, db_exists, conn, files, pc, stdout, exit_code>>

\* A faulty export: the documents joined with their sources, as search and
\* get_embeddings select them.
export_data_Joined ==
    [sources |-> list_sources,
     documents |-> [i \in 1..Len(JoinSources(documents)) |->
                       JoinSources(documents)[i].row],
     code_examples |-> get_code_examples(PyNone)]

\* The data export_to_json gathers before it opens the file.
export_data ==
    [sources |-> list_sources,
     documents |-> get_documents(PyNone),
     code_examples |-> get_code_examples(PyNone)]

\* What export_to_json returns.
export_return(output_path) == output_path

Call_export_to_json(output_path) ==
    /\ pc = "api" /\ conn # "none"
    /\ IF conn = "open"
       THEN /\ cursor' = "used"
            /\ files' = [files EXCEPT ![output_path] =
                            [exists |-> TRUE, tokens |-> json_dump(export_data)]]
            /\ ret' = [op |-> "export_to_json", raised |-> "",
                       output_path |-> output_path,
                       val |-> export_return(output_path)]
       ELSE /\ ret' = Raised("export_to_json")
            /\ UNCHANGED <<cursor, files>>
    /\ UNCHANGED <<tables, db_exists, conn, pc, stdout, exit_code>>

\* A faulty close: it empties the collections table before closing.
Call_close_Deleting ==
    /\ pc = "api" /\ conn # "none"
    /\ conn' = "closed"
    /\ collections' = <<>>
    /\ ret' = [op |-> "close", raised |-> ""]
    /\ UNCHANGED <<sources, documents, code_examples, db_exists, cursor, files,
                   pc, stdout, exit_code>>

Call_close ==
    /\ pc = "api" /\ conn # "none"
    /\ conn' = "closed"
    /\ ret' = [op |-> "close", raised |-> ""]
    /\ UNCHANGED <<tables, db_exists, cursor, files, pc, stdout, exit_code>>

---------------------------------------------------------------------------
(* The script: the entry point and example_basic_usage. *)

React == <<"r", "e", "a", "c", "t">>

\* A faulty entry point: the messages are printed and exit(1) is missing.
Main_check_NoExit ==
    /\ pc = "main"
    /\ stdout' = IF db_exists THEN stdout
                 ELSE stdout \o <<"not_found", "crawl_first">>
    /\ pc' = "example"
    /\ UNCHANGED <<tables, db_exists, conn, cursor, files, ret, exit_code>>

\* if not DB_PATH.exists(): two prints and exit(1).
Main_check ==
    /\ pc = "main"
    /\ IF db_exists
       THEN /\ pc' = "example"
            /\ UNCHANGED <<stdout, exit_code>>
       ELSE /\ stdout' = stdout \o <<"not_found", "crawl_first">>
            /\ exit_code' = 1
            /\ pc' = "exited"
    /\ UNCHANGED <<tables, db_exists, conn, cursor, files, ret>>

\* The banner and db = DevDiggerDB().
Example_connect ==
    /\ pc = "example"
    /\ stdout' = stdout \o <<"banner">>
    /\ conn' = "open"
    /\ cursor' = "fresh"
    /\ pc' = "stats"
    /\ UNCHANGED <<tables, db_exists, files, ret, exit_code>>

\* stats = db.get_stats(), its printing, and the return when no source is stored.
Example_stats ==
    /\ pc = "stats"
    /\ cursor' = "used"
    /\ ret' = [op |-> "get_stats", raised |-> "", val |-> get_stats]
    /\ IF get_stats["sources"] = 0
       THEN /\ stdout' = stdout \o <<"stats", "no_data">>
            /\ pc' = "returned"
       ELSE /\ stdout' = stdout \o <<"stats">>
            /\ pc' = "list"
    /\ UNCHANGED <<tables, db_exists, conn, files, exit_code>>

Example_list ==
    /\ pc = "list"
    /\ ret' = [op |-> "list_sources", raised |-> "", val |-> list_sources]
    /\ stdout' = stdout \o <<"sources">>
    /\ pc' = "search"
    /\ UNCHANGED <<tables, db_exists, conn, cursor, files, exit_code>>

Example_search ==
    /\ pc = "search"
    /\ ret' = [op |-> "search", raised |-> "", query |-> React, limit |-> 3,
               val |-> search(React, 3)]
    /\ stdout' = stdout \o <<"search">>
    /\ pc' = "examples"
    /\ UNCHANGED <<tables, db_exists, conn, cursor, files, exit_code>>

Example_code ==
    /\ pc = "examples"
    /\ ret' = [op |-> "get_code_examples", raised |-> "", language |-> PyNone,
               val |-> get_code_examples(PyNone)]
    /\ stdout' = stdout \o <<"examples">>
    /\ pc' = "close"
    /\ UNCHANGED <<tables, db_exists, conn, cursor, files, exit_code>>

\* db.close() and the return of example_basic_usage.
Example_close ==
    /\ pc = "close"
    /\ conn' = "closed"
    /\ pc' = "returned"
    /\ UNCHANGED <<tables, db_exists, cursor, files, ret, stdout, exit_code>>

\* The script ends after example_basic_usage returned.
Main_exit ==
    /\ pc = "returned"
    /\ exit_code' = 0
    /\ pc' = "exited"
    /\ UNCHANGED <<tables, db_exists, conn, cursor, files, ret, stdout>>

---------------------------------------------------------------------------
(* The databases and arguments the specifications draw from. *)

SeqsUpTo(S, n) == UNION {[1..k -> S] : k \in 0..n}

\* The first k sources, the later crawled the later created.
SourcesUpTo(k) == [i \in 1..k |-> [id |-> i, created_at |-> i]]

\* Documents numbered in rowid order.
DocumentRows(fields) ==
    [i \in 1..Len(fields) |->
        [id |-> i, source_id |-> fields[i].source_id,
         content |-> fields[i].content,
         chunk_index |-> fields[i].chunk_index,
         embedding |-> fields[i].embedding]]

CodeExampleRows(fields) ==
    [i \in 1..Len(fields) |->
        [id |-> i, source_id |-> fields[i].source_id,
         language |-> fields[i].language]]

CollectionRows(k) == [i \in 1..k |-> [id |-> i]]

Limits == (0 - 1)..(MaxRows + 1)

SourceIdArgs == {PyNone, PyStr(<<>>)} \cup {PyInt(i) : i \in 0..MaxRows}

LanguageArgs == {PyNone, PyStr(<<>>), PyStr(<<"a">>)}

\* A constructed reader (conn = "open") or none yet, no script running.
InitReader(c) ==
    /\ db_exists = TRUE
    /\ conn = c
    /\ cursor = IF c = "open" THEN "fresh" ELSE "none"
    /\ files = [path \in Paths |-> NoFile]
    /\ ret = NoRet
    /\ pc = "api"
    /\ stdout = <<>>
    /\ exit_code = 0 - 1

\* One call on a fresh reader.
FirstCall == ret.op = "none"

---------------------------------------------------------------------------
(* SpecSearch: one search on documents of every content, their source      *)
(* stored or not.                                                          *)

InitSearch ==
    /\ InitReader("open")
    /\ \E k \in 0..1 : sources = SourcesUpTo(k)
    /\ \E fields \in SeqsUpTo([source_id : {1}, content : Strings,
                               chunk_index : {0}, embedding : {Null}], MaxRows) :
          documents = DocumentRows(fields)
    /\ code_examples = <<>>
    /\ collections = <<>>

NextSearch ==
    FirstCall /\ \E query \in Strings, limit \in Limits : Call_search(query, limit)

SpecSearch == InitSearch /\ [][NextSearch]_vars

---------------------------------------------------------------------------
(* SpecDocuments: one get_documents on documents of every source and chunk *)
(* index.                                                                  *)

InitDocuments ==
    /\ InitReader("open")
    /\ sources = SourcesUpTo(MaxRows)
    /\ \E fields \in SeqsUpTo([source_id : 0..MaxRows, content : {<<"a">>},
                               chunk_index : 0..(MaxRows - 1),
                               embedding : {Null}], MaxRows) :
          documents = DocumentRows(fields)
    /\ code_examples = <<>>
    /\ collections = <<>>

NextDocuments ==
    FirstCall /\ \E source_id \in SourceIdArgs : Call_get_documents(source_id)

SpecDocuments == InitDocuments /\ [][NextDocuments]_vars

---------------------------------------------------------------------------
(* SpecEmbeddings: one get_embeddings on documents with and without an     *)
(* embedding, of every blob length, with and without a stored source.      *)

Embeddings == {Null} \cup {BlobOfLen(n) : n \in 0..MaxBlobLen}

InitEmbeddings ==
    /\ InitReader("open")
    /\ sources = SourcesUpTo(MaxRows - 1)
    /\ \E fields \in SeqsUpTo([source_id : 1..MaxRows, content : {<<"a">>},
                               chunk_index : {0}, embedding : Embeddings],
                              MaxRows) :
          documents = DocumentRows(fields)
    /\ code_examples = <<>>
    /\ collections = <<>>

NextEmbeddings == FirstCall /\ Call_get_embeddings

SpecEmbeddings == InitEmbeddings /\ [][NextEmbeddings]_vars

---------------------------------------------------------------------------
(* SpecExport: one get_stats or export_to_json on tables of every size,    *)
(* documents and code examples with and without a stored source.           *)

\* Documents of the sources given, the odd sources' with an embedding.
DocumentsOf(source_ids) ==
    DocumentRows([i \in 1..Len(source_ids) |->
        [source_id |-> source_ids[i], content |-> <<"a">>, chunk_index |-> 0,
         embedding |-> IF source_ids[i] % 2 = 1 THEN BlobOfLen(4) ELSE Null]])

CodeExamplesOf(source_ids) ==
    CodeExampleRows([i \in 1..Len(source_ids) |->
        [source_id |-> source_ids[i], language |-> <<"a">>]])

InitTables(n) ==
    /\ \E k \in 0..n : sources = SourcesUpTo(k)
    /\ \E ids \in SeqsUpTo(1..n, n) : documents = DocumentsOf(ids)
    /\ \E ids \in SeqsUpTo(1..n, n) : code_examples = CodeExamplesOf(ids)
    /\ \E k \in 0..n : collections = CollectionRows(k)

InitExport == InitReader("open") /\ InitTables(MaxRows)

NextExport ==
    /\ FirstCall
    /\ \/ Call_get_stats
       \/ \E output_path \in Paths : Call_export_to_json(output_path)

SpecExport == InitExport /\ [][NextExport]_vars

---------------------------------------------------------------------------
(* Spec: any sequence of calls, from the construction of the reader on.    *)

Init == InitReader("none") /\ InitTables(MaxSeqRows)

Next ==
    \/ Call_init
    \/ Call_get_stats
    \/ Call_list_sources
    \/ \E limit \in {0 - 1, 1} : Call_search(<<"a">>, limit)
    \/ \E source_id \in {PyNone, PyInt(1)} : Call_get_documents(source_id)
    \/ \E language \in LanguageArgs : Call_get_code_examples(language)
    \/ Call_get_embeddings
    \/ \E output_path \in Paths : Call_export_to_json(output_path)
    \/ Call_close

Spec == Init /\ [][Next]_vars

---------------------------------------------------------------------------
(* SpecMain: the script, the database file present or absent.              *)

InitMain ==
    /\ db_exists \in BOOLEAN
    /\ IF db_exists
       THEN /\ \E k \in 0..MaxRows : sources = SourcesUpTo(k)
            /\ \E fields \in SeqsUpTo([source_id : {1}, content : {<<"a">>, React},
                                       chunk_index : {0}, embedding : {Null}],
                                      MaxRows) :
                  documents = DocumentRows(fields)
            /\ \E ids \in SeqsUpTo({1}, MaxRows) : code_examples = CodeExamplesOf(ids)
            /\ collections = <<>>
       ELSE /\ sources = <<>> /\ documents = <<>>
            /\ code_examples = <<>> /\ collections = <<>>
    /\ conn = "none"
    /\ cursor = "none"
    /\ files = [path \in Paths |-> NoFile]
    /\ ret = NoRet
    /\ pc = "main"
    /\ stdout = <<>>
    /\ exit_code = 0 - 1

NextMain ==
    \/ Main_check
    \/ Example_connect
    \/ Example_stats
    \/ Example_list
    \/ Example_search
    \/ Example_code
    \/ Example_close
    \/ Main_exit

SpecMain == InitMain /\ [][NextMain]_vars

---------------------------------------------------------------------------
(* The properties. *)

Returned(op) == ret.op = op /\ ret.raised = ""

\* Python's `query in content`.
Contains(s, q) ==
    \E i \in 0..(Len(s) - Len(q)) : SubSeq(s, i + 1, i + Len(q)) = q

\* The (document, source) pairs whose document matches %query%.
MatchingPairs(query) ==
    {p \in (1..Len(documents)) \X (1..Len(sources)) :
        /\ documents[p[1]].source_id = sources[p[2]].id
        /\ Like(<<"%">> \o query \o <<"%">>, documents[p[1]].content)}

\* How often the document of the given id occurs in a result.
Occurrences(rows, id) == Cardinality({k \in 1..Len(rows) : rows[k].id = id})

HasSource(d) == \E j \in 1..Len(sources) : sources[j].id = d.source_id

\* C1, as claimed: for every query, every integer limit (0 and negative
\* values included) and every database, search(query, limit) returns no
\* more than limit records.
C1_AtMostLimit == Returned("search") => Len(ret.val) <= ret.limit

\* C1, amended: for every limit >= 0, search(query, limit) returns no more
\* than limit records; for a negative limit it returns every matching
\* record, none cut off.
C1_AtMostLimitWhenNonNegative ==
    Returned("search") =>
        /\ ret.limit >= 0 => Len(ret.val) <= ret.limit
        /\ ret.limit < 0 => Len(ret.val) = Cardinality(MatchingPairs(ret.query))

\* A search that LIMIT cut short: two documents match, limit is 1.
C1_Witness ==
    /\ Returned("search")
    /\ ret.limit = 1
    /\ Len(ret.val) = 1
    /\ Cardinality(MatchingPairs(ret.query)) = 2

\* C2: every record search(query, limit) returns has a content that
\* contains query as a case-sensitive literal substring, also for queries
\* with % or _ and queries that differ from the stored text in case only.
C2_ContentContainsQuery ==
    Returned("search") =>
        \A i \in 1..Len(ret.val) : Contains(ret.val[i].content, ret.query)

\* C3: for every sourceId passed to get_documents (0 and the empty string
\* included), the result holds only documents whose source_id equals
\* sourceId, in non-decreasing order of chunk_index.
C3_OnlyOfSourceInChunkOrder ==
    (Returned("get_documents") /\ ret.source_id.kind # "none") =>
        /\ \A i \in 1..Len(ret.val) : SqlEqInt(ret.val[i].source_id, ret.source_id)
        /\ \A i \in 1..(Len(ret.val) - 1) :
              ret.val[i].chunk_index <= ret.val[i + 1].chunk_index

\* C4: after export_to_json(path), reparsing the file at path yields arrays
\* under exactly the keys sources, documents and code_examples, as long as
\* the results of list_sources(), get_documents() and get_code_examples()
\* on the same database, and the call returned path.
C4_ExportLengths ==
    Returned("export_to_json") =>
        LET file == files[ret.output_path]
            lengths == json_load_lengths(file.tokens)
        IN /\ file.exists
           /\ DOMAIN lengths = {"sources", "documents", "code_examples"}
           /\ lengths["sources"] = Len(list_sources)
           /\ lengths["documents"] = Len(get_documents(PyNone))
           /\ lengths["code_examples"] = Len(get_code_examples(PyNone))
           /\ ret.val = ret.output_path

\* An export to the non-default path, of two documents and of code examples
\* of which the join with sources drops one.
C4_Witness ==
    /\ Returned("export_to_json")
    /\ ret.output_path = "out.json"
    /\ json_load_lengths(files["out.json"].tokens)["documents"] = 2
    /\ json_load_lengths(files["out.json"].tokens)["code_examples"] = 1
    /\ Len(code_examples) = 2

\* C5: in every record get_embeddings() returns, embedding is a decoded
\* array of 32-bit floats, as long as a quarter of the stored blob's byte
\* length, for every non-null blob, the zero-length blob included.
C5_DecodedArray ==
    Returned("get_embeddings") =>
        \A i \in 1..Len(ret.val) :
            LET stored == documents[ret.val[i].id].embedding.bytes
            IN /\ ret.val[i].embedding.type = "ndarray"
               /\ 4 * Len(ret.val[i].embedding.data) = Len(stored)

\* C6, as claimed: for every database, every document with a non-null
\* embedding occurs exactly once in the result of get_embeddings(), and no
\* document with a null embedding occurs.
C6_AllWithEmbedding ==
    Returned("get_embeddings") =>
        \A i \in 1..Len(documents) :
            Occurrences(ret.val, documents[i].id) =
                IF documents[i].embedding.null THEN 0 ELSE 1

\* C6, amended: whenever get_embeddings() returns, every document with a
\* non-null embedding whose source_id is the id of a stored source occurs
\* exactly once in the result, and no other document occurs.
C6_AllWithEmbeddingAndSource ==
    Returned("get_embeddings") =>
        \A i \in 1..Len(documents) :
            Occurrences(ret.val, documents[i].id) =
                IF ~documents[i].embedding.null /\ HasSource(documents[i])
                THEN 1 ELSE 0

\* A result with one document, of two that have an embedding: the other's
\* source is not stored.
C6_Witness ==
    /\ Returned("get_embeddings")
    /\ Len(ret.val) = 1
    /\ Len(documents) = 2
    /\ \A i \in 1..2 : ~documents[i].embedding.null
    /\ \E i \in 1..2 : ~HasSource(documents[i])

\* C7: with the database file absent the entry point prints its message
\* and exits with code 1, no reader constructed and no query run; with the
\* file present it runs the basic example and exits with code 0.
C7_ExitCode ==
    /\ exit_code = 1 =>
          /\ ~db_exists
          /\ stdout = <<"not_found", "crawl_first">>
          /\ conn = "none" /\ cursor = "none" /\ ret = NoRet
    /\ (pc = "exited" /\ ~db_exists) => exit_code = 1
    /\ (pc = "exited" /\ db_exists) =>
          /\ exit_code = 0
          /\ Len(stdout) >= 2 /\ stdout[1] = "banner" /\ stdout[2] = "stats"
          /\ conn # "none"

\* The script ended because the database file is absent.
C7_Witness == pc = "exited" /\ ~db_exists /\ exit_code = 1

C9_Stats ==
    Returned("get_stats") =>
        /\ DOMAIN ret.val = {"sources", "documents", "code_examples", "collections"}
        /\ \A name \in DOMAIN ret.val : ret.val[name] \in Nat
        /\ ret.val["sources"] = Len(sources)
        /\ ret.val["documents"] = Len(documents)
        /\ ret.val["code_examples"] = Len(code_examples)
        /\ ret.val["collections"] = Len(collections)

\* Statistics of four tables of different sizes.
C9_Witness ==
    /\ Returned("get_stats")
    /\ ret.val["sources"] = 0
    /\ ret.val["documents"] = 2
    /\ ret.val["code_examples"] = 1
    /\ ret.val["collections"] = 2

\* C10: when example_basic_usage has returned, also on the path taken when
\* the sources table is empty, the connection it opened has been closed.
C10_ClosedOnReturn == pc = "returned" => conn = "closed"

===========================================================================
